---- MODULE Spec2Model ----
(***************************************************************************)
(* Model of the DMA buffer of src/dma.rs: a Buffer<T, CHANNEL> carries a   *)
(* run-time borrow counter (`flag`) and a hardware-lock state (`state`).   *)
(* CPU code takes Ref / RefMut guards with borrow() / borrow_mut(), a      *)
(* driver takes the buffer for the DMA engine with lock() / lock_mut(),    *)
(* and release() polls the channel's status flags to give it back.         *)
(*                                                                         *)
(* Spec      every operation is one atomic action (one execution context) *)
(* SpecLive  Spec without transfer errors, with a fair poll and DMA engine *)
(* SpecSteps release() statement by statement, the DMA engine in between   *)
(* SpecIrq   SpecSteps with an interrupt handler that shares the buffer    *)
(* SpecTwo   two buffers bound to the same channel                         *)
(*                                                                         *)
(* A failed assertion panics: the program halts at that point.             *)
(***************************************************************************)
EXTENDS Integers, Naturals, FiniteSets, Sequences, TLC

(* Width of BorrowFlag in the model (usize on the target).                 *)
CounterBits == 2

Modulus == 2 ^ CounterBits

(* const UNUSED: BorrowFlag = 0;  const WRITING: BorrowFlag = !0;          *)
UNUSED == 0

WRITING == Modulus - 1

(* enum State { Unlocked = 0, Locked, MutLocked }                          *)
State == {"Unlocked", "Locked", "MutLocked"}

VARIABLES
    flag,      \* Buffer.flag : Cell<BorrowFlag>
    state,     \* Buffer.state : Cell<State>
    refs,      \* number of live Ref guards
    refmuts,   \* number of live RefMut guards
    tcif,      \* DMA1.ISR transfer-complete flag of the buffer's channel
    teif,      \* DMA1.ISR transfer-error flag of the buffer's channel
    en,        \* DMA1.CCRx EN bit of the buffer's channel
    halted,    \* a failed assertion has stopped the program
    op,        \* the last step taken
    ret,       \* what the last step returned
    pre,       \* snapshot of the state before the last step
    pre2,      \* snapshot of the state before the step before that
    poll,      \* where the main loop's release() call stands, step by step
    bufB,      \* flag and state of a second Buffer bound to the same channel
    xfer       \* which buffer the channel's transfer and its TCIF belong to

(* The variables only the stepwise and the two-buffer specifications move. *)
ext == <<poll, bufB, xfer>>

vars == <<flag, state, refs, refmuts, tcif, teif, en, halted, op, ret, pre, pre2,
          poll, bufB, xfer>>


Snap ==
    [flag |-> flag, state |-> state, refs |-> refs, refmuts |-> refmuts,
     tcif |-> tcif, teif |-> teif, en |-> en, op |-> op, ret |-> ret,
     bufB |-> bufB, xfer |-> xfer]

(***************************************************************************)
(* The operations of Buffer as functions of the fields they read.          *)
(***************************************************************************)

(* self.flag.get() + 1 / - 1 on a CounterBits-wide unsigned integer.  The  *)
(* callers add one only below WRITING, so the addition never wraps; a      *)
(* subtraction from 0 wraps or panics, see underflow.                      *)
inc(f) == (f + 1) % Modulus

dec(f) == (f + Modulus - 1) % Modulus

(* flag - 1 at flag == 0: a build with overflow checks panics there, one   *)
(* without them wraps.  TRUE in the result stands for the panic.           *)
underflow(f) == IF f = 0 THEN BOOLEAN ELSE {FALSE}

(* borrow: assert_ne!(flag, WRITING); flag += 1; Ref { .. }                *)
borrow(f) ==
    IF f = WRITING
      THEN [ok |-> FALSE, flag |-> f]
      ELSE [ok |-> TRUE, flag |-> inc(f)]

(* borrow_mut that only refuses a counter at the sentinel.                 *)
borrow_mut_only_writing(f) ==
    IF f = WRITING
      THEN [ok |-> FALSE, flag |-> f]
      ELSE [ok |-> TRUE, flag |-> WRITING]

(* borrow_mut: assert_eq!(flag, UNUSED); flag = WRITING; RefMut { .. }     *)
borrow_mut(f) ==
    IF f # UNUSED
      THEN [ok |-> FALSE, flag |-> f]
      ELSE [ok |-> TRUE, flag |-> WRITING]

(* A Ref drop that resets the counter the way a RefMut drop does.          *)
drop_Ref_reset(f) == UNUSED

(* impl Drop for Ref: flag -= 1                                            *)
drop_Ref(f) == dec(f)

(* A RefMut drop that decrements the counter the way a Ref drop does.      *)
drop_RefMut_dec(f) == dec(f)

(* impl Drop for RefMut: flag = UNUSED                                     *)
drop_RefMut(f) == UNUSED

(* lock without the assertion on the state.                                *)
lock_no_state_check(s, f) ==
    IF f = WRITING
      THEN [ok |-> FALSE, flag |-> f, state |-> s]
      ELSE [ok |-> TRUE, flag |-> inc(f), state |-> "Locked"]

(* lock without the assertion on the counter.                              *)
lock_no_flag_check(s, f) ==
    IF s # "Unlocked"
      THEN [ok |-> FALSE, flag |-> f, state |-> s]
      ELSE [ok |-> TRUE, flag |-> inc(f), state |-> "Locked"]

(* lock that writes the state before it asserts on the counter.            *)
lock_state_before_flag_check(s, f) ==
    IF s # "Unlocked"
      THEN [ok |-> FALSE, flag |-> f, state |-> s]
    ELSE IF f = WRITING
      THEN [ok |-> FALSE, flag |-> f, state |-> "Locked"]
    ELSE [ok |-> TRUE, flag |-> inc(f), state |-> "Locked"]

(* lock: assert_eq!(state, Unlocked); assert_ne!(flag, WRITING);           *)
(*       flag += 1; state = Locked                                         *)
lock(s, f) ==
    IF s # "Unlocked" \/ f = WRITING
      THEN [ok |-> FALSE, flag |-> f, state |-> s]
      ELSE [ok |-> TRUE, flag |-> inc(f), state |-> "Locked"]

(* lock_mut that forgets to write the sentinel into the counter.           *)
lock_mut_keeps_flag(s, f) ==
    IF s # "Unlocked" \/ f # UNUSED
      THEN [ok |-> FALSE, flag |-> f, state |-> s]
      ELSE [ok |-> TRUE, flag |-> f, state |-> "MutLocked"]

(* lock_mut that asserts on the counter the way lock does.                 *)
lock_mut_only_writing(s, f) ==
    IF s # "Unlocked" \/ f = WRITING
      THEN [ok |-> FALSE, flag |-> f, state |-> s]
      ELSE [ok |-> TRUE, flag |-> WRITING, state |-> "MutLocked"]

(* lock_mut: assert_eq!(state, Unlocked); assert_eq!(flag, UNUSED);        *)
(*           flag = WRITING; state = MutLocked                             *)
lock_mut(s, f) ==
    IF s # "Unlocked" \/ f # UNUSED
      THEN [ok |-> FALSE, flag |-> f, state |-> s]
      ELSE [ok |-> TRUE, flag |-> WRITING, state |-> "MutLocked"]

(* unlock that resets the counter for a shared lock too.                   *)
unlock_always_reset(s, f) ==
    [flag |-> UNUSED, state |-> "Unlocked"]

(* unlock that decrements the counter for an exclusive lock too.           *)
unlock_always_dec(s, f) ==
    [flag |-> dec(f), state |-> "Unlocked"]

(* unlock(state): reverse the counter effect of the observed state, then   *)
(* state = Unlocked                                                        *)
unlock(s, f) ==
    [flag  |-> CASE s = "Locked"    -> dec(f)
                 [] s = "MutLocked" -> UNUSED
                 [] OTHER           -> f,
     state |-> "Unlocked"]

(* release that never looks at TCIF: no error means done.                  *)
release_no_tcif_test(s, f, te, tc, e) ==
    IF s = "Unlocked"
      THEN [ret |-> "Ok", flag |-> f, state |-> s, tcif |-> tc, en |-> e]
    ELSE IF te
      THEN [ret |-> "Transfer", flag |-> f, state |-> s, tcif |-> tc, en |-> e]
    ELSE LET u == unlock(s, f)
         IN  [ret |-> "Ok", flag |-> u.flag, state |-> u.state,
              tcif |-> FALSE, en |-> FALSE]

(* release that tests TCIF before TEIF.                                    *)
release_tcif_first(s, f, te, tc, e) ==
    IF s = "Unlocked"
      THEN [ret |-> "Ok", flag |-> f, state |-> s, tcif |-> tc, en |-> e]
    ELSE IF tc
      THEN LET u == unlock(s, f)
           IN  [ret |-> "Ok", flag |-> u.flag, state |-> u.state,
                tcif |-> FALSE, en |-> FALSE]
    ELSE IF te
      THEN [ret |-> "Transfer", flag |-> f, state |-> s, tcif |-> tc, en |-> e]
    ELSE [ret |-> "WouldBlock", flag |-> f, state |-> s, tcif |-> tc, en |-> e]

(* release that gives the buffer back on a transfer error as well.         *)
release_error_unlocks(s, f, te, tc, e) ==
    IF s = "Unlocked"
      THEN [ret |-> "Ok", flag |-> f, state |-> s, tcif |-> tc, en |-> e]
    ELSE IF te
      THEN LET u == unlock(s, f)
           IN  [ret |-> "Transfer", flag |-> u.flag, state |-> u.state,
                tcif |-> tc, en |-> e]
    ELSE IF tc
      THEN LET u == unlock(s, f)
           IN  [ret |-> "Ok", flag |-> u.flag, state |-> u.state,
                tcif |-> FALSE, en |-> FALSE]
    ELSE [ret |-> "WouldBlock", flag |-> f, state |-> s, tcif |-> tc, en |-> e]

(* release without the early return for an Unlocked buffer.                *)
release_no_early_return(s, f, te, tc, e) ==
    IF te
      THEN [ret |-> "Transfer", flag |-> f, state |-> s, tcif |-> tc, en |-> e]
    ELSE IF tc
      THEN LET u == unlock(s, f)
           IN  [ret |-> "Ok", flag |-> u.flag, state |-> u.state,
                tcif |-> FALSE, en |-> FALSE]
    ELSE [ret |-> "WouldBlock", flag |-> f, state |-> s, tcif |-> tc, en |-> e]

(* release that clears TCIF and EN on completion but never calls unlock.   *)
release_forgets_unlock(s, f, te, tc, e) ==
    IF s = "Unlocked"
      THEN [ret |-> "Ok", flag |-> f, state |-> s, tcif |-> tc, en |-> e]
    ELSE IF te
      THEN [ret |-> "Transfer", flag |-> f, state |-> s, tcif |-> tc, en |-> e]
    ELSE IF tc
      THEN [ret |-> "Ok", flag |-> f, state |-> s, tcif |-> FALSE, en |-> FALSE]
    ELSE [ret |-> "WouldBlock", flag |-> f, state |-> s, tcif |-> tc, en |-> e]

(* release: the per-channel completion poll.  te / tc are the channel's    *)
(* TEIF / TCIF bits of ISR, e its EN bit of CCR.  The three impls, for     *)
(* Dma1Channel2, Dma1Channel4 and Dma1Channel5, are the same code on the   *)
(* bits of their own channel (teif2/tcif2/ctcif2/ccr2, ..4, ..5); the      *)
(* model carries the registers of the one channel the buffer is bound to.  *)
release(s, f, te, tc, e) ==
    IF s = "Unlocked"
      THEN [ret |-> "Ok", flag |-> f, state |-> s, tcif |-> tc, en |-> e]
    ELSE IF te
      THEN [ret |-> "Transfer", flag |-> f, state |-> s, tcif |-> tc, en |-> e]
    ELSE IF tc
      THEN LET u == unlock(s, f)
           IN  [ret |-> "Ok", flag |-> u.flag, state |-> u.state,
                tcif |-> FALSE, en |-> FALSE]
    ELSE [ret |-> "WouldBlock", flag |-> f, state |-> s, tcif |-> tc, en |-> e]

(***************************************************************************)
(* Initial state: Buffer::new, DMA registers at their reset value.         *)
(***************************************************************************)
Init ==
    /\ flag = 0
    /\ state = "Unlocked"
    /\ refs = 0
    /\ refmuts = 0
    /\ tcif = FALSE
    /\ teif = FALSE
    /\ en = FALSE
    /\ halted = FALSE
    /\ op = "new"
    /\ ret = "Buffer"
    /\ pre = [flag |-> 0, state |-> "Unlocked", refs |-> 0, refmuts |-> 0,
              tcif |-> FALSE, teif |-> FALSE, en |-> FALSE,
              op |-> "none", ret |-> "none",
              bufB |-> [flag |-> 0, state |-> "Unlocked"],
              xfer |-> [armed |-> "none", done |-> "none"]]
    /\ pre2 = pre
    /\ poll = [pc |-> "idle", obs |-> "Unlocked", done |-> <<>>]
    /\ bufB = [flag |-> 0, state |-> "Unlocked"]
    /\ xfer = [armed |-> "none", done |-> "none"]

(* Every step records itself and shifts the snapshots.                     *)
Record(name, result) ==
    /\ op' = name
    /\ ret' = result
    /\ pre' = Snap
    /\ pre2' = pre

(***************************************************************************)
(* CPU-side operations                                                     *)
(***************************************************************************)
Borrow ==
    /\ ~halted
    /\ LET r == borrow(flag)
       IN  /\ flag' = r.flag
           /\ refs' = IF r.ok THEN refs + 1 ELSE refs
           /\ halted' = ~r.ok
           /\ Record("borrow", IF r.ok THEN "Ref" ELSE "panic")
    /\ UNCHANGED <<state, refmuts, tcif, teif, en>>
    /\ UNCHANGED ext

BorrowMut ==
    /\ ~halted
    /\ LET r == borrow_mut(flag)
       IN  /\ flag' = r.flag
           /\ refmuts' = IF r.ok THEN refmuts + 1 ELSE refmuts
           /\ halted' = ~r.ok
           /\ Record("borrow_mut", IF r.ok THEN "RefMut" ELSE "panic")
    /\ UNCHANGED <<state, refs, tcif, teif, en>>
    /\ UNCHANGED ext

DropRef ==
    /\ ~halted
    /\ refs > 0
    /\ \E panic \in underflow(flag) :
          /\ flag' = IF panic THEN flag ELSE drop_Ref(flag)
          /\ halted' = panic
          /\ Record("drop_Ref", IF panic THEN "panic" ELSE "unit")
    /\ refs' = refs - 1
    /\ UNCHANGED <<state, refmuts, tcif, teif, en>>
    /\ UNCHANGED ext

DropRefMut ==
    /\ ~halted
    /\ refmuts > 0
    /\ flag' = drop_RefMut(flag)
    /\ refmuts' = refmuts - 1
    /\ Record("drop_RefMut", "unit")
    /\ UNCHANGED <<state, refs, tcif, teif, en, halted>>
    /\ UNCHANGED ext

(***************************************************************************)
(* Driver-side operations                                                  *)
(***************************************************************************)
Lock ==
    /\ ~halted
    /\ LET r == lock(state, flag)
       IN  /\ flag' = r.flag
           /\ state' = r.state
           /\ halted' = ~r.ok
           /\ Record("lock", IF r.ok THEN "&T" ELSE "panic")
    /\ UNCHANGED <<refs, refmuts, tcif, teif, en>>
    /\ UNCHANGED ext

LockMut ==
    /\ ~halted
    /\ LET r == lock_mut(state, flag)
       IN  /\ flag' = r.flag
           /\ state' = r.state
           /\ halted' = ~r.ok
           /\ Record("lock_mut", IF r.ok THEN "&mut T" ELSE "panic")
    /\ UNCHANGED <<refs, refmuts, tcif, teif, en>>
    /\ UNCHANGED ext

Release ==
    /\ ~halted
    /\ LET r == release(state, flag, teif, tcif, en)
           decrements == r.state # state /\ state = "Locked"
       IN  \E panic \in (IF decrements THEN underflow(flag) ELSE {FALSE}) :
              /\ flag' = IF panic THEN flag ELSE r.flag
              /\ state' = IF panic THEN state ELSE r.state
              /\ tcif' = IF panic THEN tcif ELSE r.tcif
              /\ en' = IF panic THEN en ELSE r.en
              /\ halted' = panic
              /\ Record("release", IF panic THEN "panic" ELSE r.ret)
    /\ UNCHANGED <<refs, refmuts, teif>>
    /\ UNCHANGED ext

(***************************************************************************)
(* The channel's registers as seen from outside the buffer: a driver       *)
(* enables the channel, the DMA engine raises the status flags of an       *)
(* enabled channel, and only code outside the buffer clears TEIF.          *)
(***************************************************************************)
Arm ==
    /\ ~halted
    /\ ~en
    /\ en' = TRUE
    /\ Record("arm", "unit")
    /\ UNCHANGED <<flag, state, refs, refmuts, tcif, teif, halted>>
    /\ UNCHANGED ext

DmaComplete ==
    /\ ~halted
    /\ en
    /\ ~tcif
    /\ tcif' = TRUE
    /\ Record("dma_complete", "unit")
    /\ UNCHANGED <<flag, state, refs, refmuts, teif, en, halted>>
    /\ UNCHANGED ext

DmaError ==
    /\ ~halted
    /\ en
    /\ ~teif
    /\ teif' = TRUE
    /\ Record("dma_error", "unit")
    /\ UNCHANGED <<flag, state, refs, refmuts, tcif, en, halted>>
    /\ UNCHANGED ext

ClearError ==
    /\ ~halted
    /\ teif
    /\ teif' = FALSE
    /\ Record("clear_error", "unit")
    /\ UNCHANGED <<flag, state, refs, refmuts, tcif, en, halted>>
    /\ UNCHANGED ext

Next ==
    \/ Borrow
    \/ BorrowMut
    \/ DropRef
    \/ DropRefMut
    \/ Lock
    \/ LockMut
    \/ Release
    \/ Arm
    \/ DmaComplete
    \/ DmaError
    \/ ClearError

Spec == Init /\ [][Next]_vars

(***************************************************************************)
(* The transfers that end well: the DMA engine never raises TEIF, the      *)
(* driver arms the channel, the engine finishes the transfer and the       *)
(* caller keeps calling release().                                         *)
(***************************************************************************)
NextLive ==
    \/ Borrow
    \/ BorrowMut
    \/ DropRef
    \/ DropRefMut
    \/ Lock
    \/ LockMut
    \/ Release
    \/ Arm
    \/ DmaComplete

SpecLive ==
    /\ Init
    /\ [][NextLive]_vars
    /\ WF_vars(Release)
    /\ WF_vars(Arm)
    /\ WF_vars(DmaComplete)

(***************************************************************************)
(* release() step by step, as the main loop runs it: read state, read      *)
(* TEIF, read TCIF, then the three statements of the completion branch.    *)
(* `poll.obs` is the local `state`, `poll.done` the statements of the      *)
(* completion branch this call has executed, in the order it did.          *)
(***************************************************************************)

(* The completion branch with the flag clear ahead of the unlock.          *)
completion_clear_first == <<"clear", "disable", "unlock">>

(* unsafe { self.unlock(state) }; ifcr.write(ctcif); ccr.modify(en clear)  *)
completion == <<"unlock", "clear", "disable">>

Idle == poll.pc = "idle"

(* The statement of the completion branch the call is at.                  *)
AtEffect(e) ==
    /\ poll.pc = "effects"
    /\ Len(poll.done) < Len(completion)
    /\ completion[Len(poll.done) + 1] = e

(* After a statement of the completion branch: the next one, or Ok(()).    *)
Advance(name, e) ==
    LET d == Append(poll.done, e)
        last == Len(d) = Len(completion)
    IN  /\ poll' = [poll EXCEPT !.done = d,
                                !.pc = IF last THEN "idle" ELSE "effects"]
        /\ Record(name, IF last THEN "Ok" ELSE "pending")

(* let state = self.state.get(); if state == State::Unlocked { return Ok } *)
PollStart ==
    /\ ~halted
    /\ Idle
    /\ poll' = [pc |-> IF state = "Unlocked" THEN "idle" ELSE "teif",
                obs |-> state, done |-> <<>>]
    /\ Record("poll_start", IF state = "Unlocked" THEN "Ok" ELSE "pending")
    /\ UNCHANGED <<flag, state, refs, refmuts, tcif, teif, en, halted, bufB, xfer>>

(* if dma1.isr.read().teifN().bit_is_set() { Err(Other(Transfer)) }        *)
PollTeif ==
    /\ ~halted
    /\ poll.pc = "teif"
    /\ poll' = [poll EXCEPT !.pc = IF teif THEN "idle" ELSE "tcif"]
    /\ Record("poll_teif", IF teif THEN "Transfer" ELSE "pending")
    /\ UNCHANGED <<flag, state, refs, refmuts, tcif, teif, en, halted, bufB, xfer>>

(* else if dma1.isr.read().tcifN().bit_is_set() { .. } else { WouldBlock } *)
PollTcif ==
    /\ ~halted
    /\ poll.pc = "tcif"
    /\ poll' = [poll EXCEPT !.pc = IF tcif THEN "effects" ELSE "idle"]
    /\ Record("poll_tcif", IF tcif THEN "pending" ELSE "WouldBlock")
    /\ UNCHANGED <<flag, state, refs, refmuts, tcif, teif, en, halted, bufB, xfer>>

(* unsafe { self.unlock(state) } with the state read at the start          *)
PollUnlock ==
    /\ ~halted
    /\ AtEffect("unlock")
    /\ LET u == unlock(poll.obs, flag)
       IN  \E panic \in (IF poll.obs = "Locked" THEN underflow(flag) ELSE {FALSE}) :
              /\ flag' = IF panic THEN flag ELSE u.flag
              /\ state' = IF panic THEN state ELSE u.state
              /\ halted' = panic
              /\ IF panic
                   THEN poll' = poll /\ Record("poll_unlock", "panic")
                   ELSE Advance("poll_unlock", "unlock")
    /\ UNCHANGED <<refs, refmuts, tcif, teif, en, bufB, xfer>>

(* dma1.ifcr.write(|w| w.ctcifN().set_bit())                               *)
PollClear ==
    /\ ~halted
    /\ AtEffect("clear")
    /\ tcif' = FALSE
    /\ Advance("poll_clear", "clear")
    /\ UNCHANGED <<flag, state, refs, refmuts, teif, en, halted, bufB, xfer>>

(* dma1.ccrN.modify(|_, w| w.en().clear_bit())                             *)
PollDisable ==
    /\ ~halted
    /\ AtEffect("disable")
    /\ en' = FALSE
    /\ Advance("poll_disable", "disable")
    /\ UNCHANGED <<flag, state, refs, refmuts, tcif, teif, halted, bufB, xfer>>

(* What the main loop does between two release() calls.  The counter      *)
(* stops borrow() at WRITING live Ref guards and borrow_mut() at one live  *)
(* RefMut; the guards on refs and refmuts keep the number of guards finite *)
(* where a stale unlock has reset the counter under them.                  *)
MainOp ==
    /\ Idle
    /\ \/ refs < Modulus /\ Borrow
       \/ refmuts < 2 /\ BorrowMut
       \/ DropRef
       \/ DropRefMut
       \/ Lock
       \/ LockMut
       \/ Arm
       \/ ClearError

(* One execution context: only the DMA engine acts between two steps of a  *)
(* release() call.                                                         *)
NextSteps ==
    \/ MainOp
    \/ PollStart
    \/ PollTeif
    \/ PollTcif
    \/ PollUnlock
    \/ PollClear
    \/ PollDisable
    \/ DmaComplete
    \/ DmaError

SpecSteps == Init /\ [][NextSteps]_vars

(* An interrupt handler that shares the buffer runs between any two steps  *)
(* of the main loop, to its end: it polls, takes the buffer for the next   *)
(* transfer, arms the channel.                                             *)
Isr ==
    \/ Release
    \/ Lock
    \/ LockMut
    \/ Arm

NextIrq ==
    \/ MainOp
    \/ PollStart
    \/ PollTeif
    \/ PollTcif
    \/ PollUnlock
    \/ PollClear
    \/ PollDisable
    \/ Isr
    \/ DmaComplete
    \/ DmaError

SpecIrq == Init /\ [][NextIrq]_vars

(***************************************************************************)
(* Two buffers of the same Buffer<T, CHANNEL> type: A is the buffer of the *)
(* variables flag and state, B is bufB.  Both poll the one channel's TCIF, *)
(* TEIF and EN.  xfer.armed is the buffer whose transfer the channel is    *)
(* running, xfer.done the buffer whose transfer raised the pending TCIF.   *)
(***************************************************************************)
Buffers == {"A", "B"}

Buf(b) == IF b = "A" THEN [flag |-> flag, state |-> state] ELSE bufB

(* Writes the fields of buffer b, leaves the other buffer alone.           *)
SetBuf(b, f, s) ==
    IF b = "A"
      THEN flag' = f /\ state' = s /\ bufB' = bufB
      ELSE bufB' = [flag |-> f, state |-> s] /\ flag' = flag /\ state' = state

HwLockedBuf(b) == Buf(b).state \in {"Locked", "MutLocked"}

LockOf(b) ==
    /\ ~halted
    /\ LET r == lock(Buf(b).state, Buf(b).flag)
       IN  /\ SetBuf(b, r.flag, r.state)
           /\ halted' = ~r.ok
           /\ Record("lock_" \o b, IF r.ok THEN "&T" ELSE "panic")
    /\ UNCHANGED <<refs, refmuts, tcif, teif, en, poll, xfer>>

LockMutOf(b) ==
    /\ ~halted
    /\ LET r == lock_mut(Buf(b).state, Buf(b).flag)
       IN  /\ SetBuf(b, r.flag, r.state)
           /\ halted' = ~r.ok
           /\ Record("lock_mut_" \o b, IF r.ok THEN "&mut T" ELSE "panic")
    /\ UNCHANGED <<refs, refmuts, tcif, teif, en, poll, xfer>>

(* release() of buffer b on the shared channel; a cleared TCIF is the      *)
(* pending completion consumed.                                            *)
ReleaseOf(b) ==
    /\ ~halted
    /\ LET r == release(Buf(b).state, Buf(b).flag, teif, tcif, en)
       IN  /\ SetBuf(b, r.flag, r.state)
           /\ tcif' = r.tcif
           /\ en' = r.en
           /\ xfer' = IF tcif /\ ~r.tcif
                        THEN [armed |-> "none", done |-> "none"]
                        ELSE xfer
           /\ Record("release_" \o b, r.ret)
    /\ UNCHANGED <<refs, refmuts, teif, halted, poll>>

(* The driver starts the transfer of a buffer it has locked.               *)
ArmFor(b) ==
    /\ ~halted
    /\ HwLockedBuf(b)
    /\ ~en
    /\ en' = TRUE
    /\ xfer' = [xfer EXCEPT !.armed = b]
    /\ Record("arm_" \o b, "unit")
    /\ UNCHANGED <<flag, state, refs, refmuts, tcif, teif, halted, poll, bufB>>

(* The channel finishes the transfer it is running.                        *)
DmaCompleteOf(b) ==
    /\ ~halted
    /\ en
    /\ ~tcif
    /\ xfer.armed = b
    /\ tcif' = TRUE
    /\ xfer' = [armed |-> "none", done |-> b]
    /\ Record("dma_complete_" \o b, "unit")
    /\ UNCHANGED <<flag, state, refs, refmuts, teif, en, halted, poll, bufB>>

LockTwo == \E b \in Buffers : LockOf(b)

LockMutTwo == \E b \in Buffers : LockMutOf(b)

ReleaseTwo == \E b \in Buffers : ReleaseOf(b)

ArmTwo == \E b \in Buffers : ArmFor(b)

DmaCompleteTwo == \E b \in Buffers : DmaCompleteOf(b)

NextTwo ==
    \/ LockTwo
    \/ LockMutTwo
    \/ ReleaseTwo
    \/ ArmTwo
    \/ DmaCompleteTwo
    \/ DmaError
    \/ ClearError

SpecTwo == Init /\ [][NextTwo]_vars

TypeOK ==
    /\ flag \in 0..WRITING
    /\ state \in State
    /\ refs \in 0..WRITING
    /\ refmuts \in 0..1
    /\ tcif \in BOOLEAN
    /\ teif \in BOOLEAN
    /\ en \in BOOLEAN
    /\ halted \in BOOLEAN

(***************************************************************************)
(* Properties.  `pre` is the state the last step started from, `pre2` the  *)
(* state the step before it started from.                                  *)
(***************************************************************************)
HwLocked(s) == s \in {"Locked", "MutLocked"}

BufferUnchanged ==
    /\ flag = pre.flag
    /\ state = pre.state
    /\ refs = pre.refs
    /\ refmuts = pre.refmuts

RegistersUnchanged ==
    /\ tcif = pre.tcif
    /\ teif = pre.teif
    /\ en = pre.en

(* C1: while the state is MutLocked no Ref or RefMut is live, and every    *)
(* borrow() and every borrow_mut() called in such a state panics without   *)
(* producing a guard.                                                      *)
C1_MutLockedRefusesCpu ==
    /\ state = "MutLocked" => refs = 0 /\ refmuts = 0
    /\ (op \in {"borrow", "borrow_mut"} /\ pre.state = "MutLocked")
          => ret = "panic" /\ halted /\ BufferUnchanged

C1_Witness ==
    /\ op = "borrow"
    /\ ret = "panic"
    /\ pre.state = "MutLocked"
    /\ pre.op = "lock_mut"

(* C2 as stated: no state has the buffer Locked or MutLocked while a Ref   *)
(* or a RefMut is live.                                                    *)
C2_NoGuardWhileHwLocked ==
    HwLocked(state) => refs = 0 /\ refmuts = 0

(* C2 amended: a hardware lock excludes CPU guards except that a shared    *)
(* lock coexists with shared guards: MutLocked with no guard at all,       *)
(* Locked with no RefMut.                                                  *)
C2_HwLockExcludesWriters ==
    /\ state = "MutLocked" => refs = 0 /\ refmuts = 0
    /\ state = "Locked" => refmuts = 0
    /\ refmuts > 0 => state = "Unlocked" /\ refs = 0

C2_Witness ==
    /\ state = "Locked"
    /\ refs > 0
    /\ refmuts = 0

C4_BorrowMutNeedsUnused ==
    /\ (op = "borrow_mut" /\ pre.flag # UNUSED)
          => ret = "panic" /\ halted /\ BufferUnchanged
    /\ (op = "borrow_mut" /\ ret # "panic")
          => /\ pre.flag = UNUSED
             /\ pre.state = "Unlocked"
             /\ flag = WRITING
             /\ refmuts = 1

C4_Witness ==
    /\ op = "borrow_mut"
    /\ ret = "panic"
    /\ pre.flag = 2
    /\ pre.refs = 2
    /\ pre.op = "borrow"

(* C5: the state becomes Locked or MutLocked only from Unlocked, by lock() *)
(* or lock_mut(); either of them called while the state is Locked or       *)
(* MutLocked panics and changes nothing.                                   *)
C5_LockOnlyFromUnlocked ==
    /\ (op \in {"lock", "lock_mut"} /\ HwLocked(pre.state))
          => ret = "panic" /\ halted /\ BufferUnchanged
    /\ (HwLocked(state) /\ state # pre.state)
          => pre.state = "Unlocked" /\ op \in {"lock", "lock_mut"}

C5_Witness ==
    /\ op = "lock"
    /\ ret = "panic"
    /\ pre.op = "lock"
    /\ pre.state = "Locked"
    /\ pre.flag # WRITING

(* C6: lock() panics whenever a RefMut is live (the counter is the         *)
(* sentinel) and otherwise, from Unlocked, adds one to the counter and     *)
(* sets Locked; lock_mut() panics whenever any guard is live (the counter  *)
(* is nonzero) and otherwise, from Unlocked, writes the sentinel and sets  *)
(* MutLocked.                                                              *)
C6_LockRespectsGuards ==
    /\ (op = "lock" /\ (pre.refmuts > 0 \/ pre.flag = WRITING))
          => ret = "panic" /\ halted /\ BufferUnchanged
    /\ (op = "lock" /\ pre.state = "Unlocked" /\ pre.flag # WRITING)
          => /\ ret = "&T"
             /\ flag = pre.flag + 1
             /\ state = "Locked"
             /\ refs = pre.refs /\ refmuts = pre.refmuts
    /\ (op = "lock_mut" /\ (pre.refs + pre.refmuts > 0 \/ pre.flag # UNUSED))
          => ret = "panic" /\ halted /\ BufferUnchanged
    /\ (op = "lock_mut" /\ pre.state = "Unlocked"
           /\ pre.refs = 0 /\ pre.refmuts = 0)
          => /\ ret = "&mut T"
             /\ pre.flag = UNUSED
             /\ flag = WRITING
             /\ state = "MutLocked"
             /\ refs = 0 /\ refmuts = 0

C6_Witness ==
    /\ op = "lock"
    /\ ret = "panic"
    /\ pre.op = "borrow_mut"
    /\ pre.refmuts = 1
    /\ pre.state = "Unlocked"

(* C7: a release() of a hardware-locked buffer with TEIF and TCIF both     *)
(* clear returns WouldBlock, each time it is called, and changes neither   *)
(* the buffer nor the channel's registers.                                 *)
C7_WouldBlockChangesNothing ==
    (op = "release" /\ HwLocked(pre.state) /\ ~pre.teif /\ ~pre.tcif)
       => ret = "WouldBlock" /\ ~halted
          /\ BufferUnchanged /\ RegistersUnchanged

C7_Witness ==
    /\ op = "release"
    /\ ret = "WouldBlock"
    /\ pre.op = "release"
    /\ pre.ret = "WouldBlock"
    /\ pre2.op = "arm"
    /\ HwLocked(state)

(* C8: a release() that finds TCIF set and TEIF clear on a hardware-locked *)
(* buffer returns Ok, takes the lock's share off the counter (one less for *)
(* Locked, 0 for MutLocked), sets Unlocked, clears TCIF and disables the   *)
(* channel; a release() of an Unlocked buffer returns Ok and changes       *)
(* nothing, so the effects happen once per completed transfer.             *)
C8_CompletionReleasesOnce ==
    /\ (op = "release" /\ HwLocked(pre.state) /\ pre.tcif /\ ~pre.teif)
          => /\ ret = "Ok"
             /\ state = "Unlocked"
             /\ flag = (IF pre.state = "Locked" THEN pre.flag - 1 ELSE UNUSED)
             /\ refs = pre.refs /\ refmuts = pre.refmuts
             /\ ~tcif /\ ~en /\ teif = pre.teif
    /\ (op = "release" /\ pre.state = "Unlocked")
          => ret = "Ok" /\ BufferUnchanged /\ RegistersUnchanged

C8_Witness ==
    /\ op = "release"
    /\ ret = "Ok"
    /\ pre.op = "release"
    /\ pre.ret = "Ok"
    /\ pre2.state = "Locked"
    /\ pre2.refs > 0
    /\ pre2.tcif
    /\ ~pre2.teif

(* C9: a release() of a hardware-locked buffer with TEIF set returns       *)
(* Transfer, also when TCIF is set too, and changes neither the buffer nor *)
(* the registers; no step unlocks the buffer while TEIF stays set.         *)
C9_TransferErrorSticks ==
    /\ (op = "release" /\ HwLocked(pre.state) /\ pre.teif)
          => ret = "Transfer" /\ ~halted
             /\ BufferUnchanged /\ RegistersUnchanged
    /\ (HwLocked(pre.state) /\ pre.teif /\ teif) => state = pre.state

C9_Witness ==
    /\ op = "release"
    /\ ret = "Transfer"
    /\ pre.op = "release"
    /\ pre.ret = "Transfer"
    /\ pre.tcif
    /\ pre.teif
    /\ HwLocked(state)

(* C10: lock_mut() from Unlocked with counter 0 succeeds with the counter  *)
(* at the sentinel and the state MutLocked; a release() that then finds    *)
(* TCIF set returns Ok with counter 0, Unlocked, TCIF clear and the        *)
(* channel disabled; a borrow_mut() or lock_mut() right after it succeeds. *)
C10_LockMutRoundTrip ==
    /\ (op = "lock_mut" /\ pre.state = "Unlocked" /\ pre.flag = UNUSED)
          => ret = "&mut T" /\ flag = WRITING /\ state = "MutLocked"
    /\ (op = "release" /\ pre.state = "MutLocked" /\ pre.tcif /\ ~pre.teif)
          => /\ ret = "Ok"
             /\ flag = UNUSED
             /\ state = "Unlocked"
             /\ ~tcif
             /\ ~en
    /\ (op \in {"borrow_mut", "lock_mut"} /\ pre.op = "release"
           /\ pre.ret = "Ok" /\ pre2.state = "MutLocked")
          => ret # "panic" /\ ~halted /\ flag = WRITING

C10_Witness ==
    /\ op = "borrow_mut"
    /\ ret = "RefMut"
    /\ pre.op = "release"
    /\ pre.ret = "Ok"
    /\ pre2.op = "dma_complete"
    /\ pre2.state = "MutLocked"
    /\ pre2.flag = WRITING

(* C13: the state leaves Locked / MutLocked only to Unlocked and only in a *)
(* release() that found TCIF set and TEIF clear and returns Ok; no other   *)
(* step, and no release() returning WouldBlock or Transfer, unlocks.       *)
C13_UnlockOnlyOnCompletion ==
    /\ (HwLocked(pre.state) /\ state # pre.state)
          => /\ state = "Unlocked"
             /\ op = "release"
             /\ ret = "Ok"
             /\ pre.tcif
             /\ ~pre.teif
    /\ (op = "release" /\ ret \in {"WouldBlock", "Transfer"})
          => state = pre.state /\ HwLocked(state)

C13_Witness ==
    /\ op = "release"
    /\ ret = "Ok"
    /\ pre.state = "Locked"
    /\ state = "Unlocked"
    /\ pre2.op = "release"
    /\ pre2.ret = "Transfer"

(* The part of the counter that is not the hardware lock's.                *)
CpuShare(s, f) ==
    CASE s = "Locked"    -> f - 1
      [] s = "MutLocked" -> 0
      [] OTHER           -> f

(* C14: a Ref drop takes exactly one off the counter, a RefMut drop sets   *)
(* it to 0, both leave the state and the registers alone; no release(),    *)
(* lock(), lock_mut() or hardware step changes the number of live guards   *)
(* or the part of the counter that stands for them.                        *)
C14_OnlyDropReversesBorrow ==
    /\ op = "drop_Ref"
          => /\ flag = pre.flag - 1
             /\ refs = pre.refs - 1
             /\ refmuts = pre.refmuts
             /\ state = pre.state
             /\ RegistersUnchanged
    /\ op = "drop_RefMut"
          => /\ flag = UNUSED
             /\ refmuts = pre.refmuts - 1
             /\ refs = pre.refs
             /\ state = pre.state
             /\ RegistersUnchanged
    /\ op \notin {"drop_Ref", "drop_RefMut", "borrow", "borrow_mut"}
          => /\ refs = pre.refs
             /\ refmuts = pre.refmuts
             /\ CpuShare(state, flag) = CpuShare(pre.state, pre.flag)

C14_Witness ==
    /\ op = "drop_RefMut"
    /\ pre.flag = WRITING
    /\ flag = UNUSED
    /\ pre2.op = "release"
    /\ pre.op = "borrow_mut"

(* C15: a call whose assertion fails leaves the counter, the state, the    *)
(* guards and the registers as they were, returns nothing, and the program *)
(* stays halted at that call.                                              *)
C15_PanicHasNoEffect ==
    /\ ret = "panic"
          => /\ op \in {"borrow", "borrow_mut", "lock", "lock_mut"}
             /\ halted
             /\ BufferUnchanged
             /\ RegistersUnchanged
    /\ halted => ret = "panic"

C15_Witness ==
    /\ op = "lock"
    /\ ret = "panic"
    /\ pre.state = "Unlocked"
    /\ pre.flag = WRITING
    /\ state = "Unlocked"

(* C16: release() of an Unlocked buffer returns Ok whatever TEIF and TCIF  *)
(* are, and changes neither the counter, the state, TCIF, TEIF nor EN.     *)
C16_PollUnlockedIsNoOp ==
    \A te, tc \in BOOLEAN :
       (op = "release" /\ pre.state = "Unlocked"
           /\ pre.teif = te /\ pre.tcif = tc)
          => /\ ret = "Ok"
             /\ ~halted
             /\ BufferUnchanged
             /\ tcif = tc
             /\ teif = te
             /\ en = pre.en

C16_Witness ==
    /\ op = "release"
    /\ ret = "Ok"
    /\ pre.state = "Unlocked"
    /\ pre.teif
    /\ pre.tcif
    /\ pre.en
    /\ tcif
    /\ en

(* One exclusive holder: a RefMut on an Unlocked buffer, or MutLocked      *)
(* with no guard.                                                          *)
ExclusiveHolder ==
    \/ state = "Unlocked" /\ refmuts = 1 /\ refs = 0
    \/ state = "MutLocked" /\ refmuts = 0 /\ refs = 0

(* The ledger without the claim that the sentinel is read one way only.    *)
LedgerUpToSentinel ==
    /\ ExclusiveHolder => flag = WRITING
    /\ ~ExclusiveHolder
          => flag = refs + (IF state = "Locked" THEN 1 ELSE 0)
    /\ state # "Unlocked" => flag # UNUSED
    /\ op = "drop_Ref" => pre.flag # UNUSED
    /\ (op = "release" /\ pre.state = "Locked" /\ state = "Unlocked")
          => pre.flag # UNUSED

(* C17: the counter is the sentinel exactly when there is one exclusive    *)
(* holder, otherwise it is the number of live Ref guards plus one if the   *)
(* state is Locked; a state other than Unlocked has a nonzero counter and  *)
(* no Ref drop or unlock decrements a counter of 0.                        *)
C17_Ledger ==
    /\ flag = WRITING <=> ExclusiveHolder
    /\ LedgerUpToSentinel

(* C18: the counter is the sentinel only after a successful borrow_mut()   *)
(* or lock_mut(): no successful borrow() or lock() leaves it there.        *)
C18_SharedNeverReachesSentinel ==
    /\ (op \in {"borrow", "lock"} /\ ret # "panic") => flag # WRITING
    /\ flag = WRITING => (refmuts = 1 \/ state = "MutLocked")

(* C11: when TEIF is never raised, the transfer completes and the caller   *)
(* keeps polling, every release() of a hardware-locked buffer returns      *)
(* WouldBlock as long as TCIF is clear, never Transfer, and a locked       *)
(* buffer is eventually Unlocked by a release() that returns Ok (unless a  *)
(* failed assertion has halted the program).                               *)
C11_EventualRelease ==
    /\ []((op = "release" /\ HwLocked(pre.state))
            => /\ ret \in {"WouldBlock", "Ok"}
               /\ ret = "WouldBlock" <=> ~pre.tcif
               /\ ret = "Ok" <=> state = "Unlocked")
    /\ (HwLocked(state) /\ ~halted)
          ~> ((state = "Unlocked" /\ op = "release" /\ ret = "Ok") \/ halted)

C11_Witness ==
    /\ op = "release"
    /\ ret = "Ok"
    /\ state = "Unlocked"
    /\ pre.op = "dma_complete"
    /\ HwLocked(pre.state)
    /\ pre2.op = "release"
    /\ pre2.ret = "WouldBlock"

(* C12: the completion branch of a release() call runs unlock with the     *)
(* state read at the start, then clears TCIF, then disables the channel:   *)
(* what the call has executed is always a prefix of that order, and once   *)
(* it has cleared TCIF or disabled the channel the state is Unlocked.      *)
C12_UnlockThenClearThenDisable ==
    /\ \E n \in 0..3 : poll.done = SubSeq(<<"unlock", "clear", "disable">>, 1, n)
    /\ (poll.pc = "effects" /\ Len(poll.done) >= 1) => state = "Unlocked"
    /\ op = "poll_unlock"
          => /\ pre.state = poll.obs
             /\ HwLocked(pre.state)
             /\ state = "Unlocked"
             /\ flag = (IF pre.state = "Locked" THEN pre.flag - 1 ELSE UNUSED)
             /\ pre.tcif /\ tcif
             /\ en = pre.en
    /\ op = "poll_clear"
          => /\ pre.state = "Unlocked" /\ state = "Unlocked"
             /\ ~tcif
             /\ en = pre.en
    /\ op = "poll_disable"
          => /\ pre.state = "Unlocked" /\ state = "Unlocked"
             /\ ~en
             /\ ret = "Ok"

C12_Witness ==
    /\ op = "poll_disable"
    /\ ret = "Ok"
    /\ poll.done = <<"unlock", "clear", "disable">>
    /\ poll.obs = "MutLocked"
    /\ state = "Unlocked"
    /\ pre.op = "poll_clear"
    /\ pre2.op = "poll_unlock"

(* C19: a release() call of the main loop that an interrupt handler        *)
(* preempts still applies unlock only to the lock it observed: at its      *)
(* unlock the buffer is in the state the call read at its start and the    *)
(* completion it saw is still pending, so no completion is unlocked twice  *)
(* and no lock the handler took in between is undone.                      *)
C19_PreemptedPollUnlocksOnce ==
    op = "poll_unlock"
       => /\ pre.state = poll.obs
          /\ pre.tcif
          /\ ret # "panic"
          /\ flag = (IF pre.state = "Locked" THEN pre.flag - 1 ELSE UNUSED)

(* C20: with two buffers on one channel a release() unlocks a buffer only  *)
(* on the completion of that buffer's own transfer, so the completion of   *)
(* A's transfer is still there for A's release().                          *)
C20_PollUnlocksOwnTransferOnly ==
    \A b \in Buffers :
       LET before == IF b = "A" THEN pre.state ELSE pre.bufB.state
       IN  (op = "release_" \o b /\ before # "Unlocked" /\ ret = "Ok")
              => pre.xfer.done = b

====
